---- MODULE Spec2Model ----
(***************************************************************************)
(* Model of solar-panel-exporter (src/src/main.rs): the /metrics handler   *)
(* with its fetch / parse / retry loop, and the pure function parse.       *)
(*                                                                         *)
(* Text is a sequence of characters.  A character is a one-character       *)
(* string, except that the Japanese characters of the markers are written  *)
(* by their romanised names ("ko", "ka", ...); each of those takes three   *)
(* bytes in UTF-8, every other character takes one.  Rust's str::find and  *)
(* the range index line[a..b] work on byte offsets, so the model keeps     *)
(* byte offsets apart from character positions.                            *)
(***************************************************************************)
EXTENDS Integers, Sequences, FiniteSets, TLC

VARIABLES inv, input, output, invs

vars == <<inv, input, output, invs>>

(***************************************************************************)
(* Option / panic values                                                   *)
(***************************************************************************)
NoneV == [tag |-> "None"]

Some(v) == [tag |-> "Some", val |-> v]

PanicV == [tag |-> "Panic"]

NotRun == [tag |-> "NotRun"]

(***************************************************************************)
(* Characters and the four markers (main.rs 28-32)                         *)
(***************************************************************************)
Kana == {"ko", "ka", "ra", "ma", "de", "hatsu", "den", "shou", "hi", "ryou", "hyou", "ji"}

Utf8Len(c) == IF c \in Kana THEN 3 ELSE 1

GENERATE_START_MARKER ==
    <<"<", "!", "-", "-", " ", "ko", "ko", "ka", "ra", "hatsu", "den", "ryou", "hyou", "ji", " ", "-", "-", ">">>

GENERATE_END_MARKER ==
    <<"<", "!", "-", "-", " ", "ko", "ko", "ma", "de", "hatsu", "den", "ryou", "hyou", "ji", " ", "-", "-", ">">>

CONSUMPTION_START_MARKER ==
    <<"<", "!", "-", "-", " ", "ko", "ko", "ka", "ra", "shou", "hi", "ryou", "hyou", "ji", " ", "-", "-", ">">>

CONSUMPTION_END_MARKER ==
    <<"<", "!", "-", "-", " ", "ko", "ko", "ma", "de", "shou", "hi", "ryou", "hyou", "ji", " ", "-", "-", ">">>

(***************************************************************************)
(* str primitives: len, contains, find, byte-range index, lines            *)
(***************************************************************************)
RECURSIVE ByteLenFrom(_, _, _)
ByteLenFrom(s, i, acc) ==
    IF i > Len(s) THEN acc ELSE ByteLenFrom(s, i + 1, acc + Utf8Len(s[i]))

\* str::len: the length in bytes.
ByteLen(s) == ByteLenFrom(s, 1, 0)

\* Character positions at which pat occurs in s.
Matches(s, pat) ==
    {i \in 1..(Len(s) - Len(pat) + 1) :
        s[i] = pat[1] /\ SubSeq(s, i, i + Len(pat) - 1) = pat}

Min(S) == CHOOSE x \in S : \A y \in S : x <= y

\* str::contains
Contains(s, pat) == Matches(s, pat) # {}

\* str::find: the byte offset of the first occurrence.
Find(s, pat) ==
    LET m == Matches(s, pat)
    IN  IF m = {} THEN NoneV ELSE Some(ByteLen(SubSeq(s, 1, Min(m) - 1)))

\* The number of characters that end at or before byte offset off, or -1
\* when off is not a character boundary of s (or lies past its end).
RECURSIVE CharsBefore(_, _, _, _)
CharsBefore(s, off, i, acc) ==
    IF acc = off THEN i
    ELSE IF acc > off \/ i >= Len(s) THEN -1
    ELSE CharsBefore(s, off, i + 1, acc + Utf8Len(s[i + 1]))

\* s[a..b] on a str: panics when a > b, when b is past the end, or when a or b
\* is not on a character boundary.
Slice(s, a, b) ==
    LET ca == CharsBefore(s, a, 0, 0)
        cb == CharsBefore(s, b, 0, 0)
    IN  IF a > b \/ ca = -1 \/ cb = -1 THEN PanicV
        ELSE Some(SubSeq(s, ca + 1, cb))

\* One line without its terminator: a trailing "\r" goes with the "\n".
StripCR(l, terminated) ==
    IF terminated /\ Len(l) > 0 /\ l[Len(l)] = "\r" THEN SubSeq(l, 1, Len(l) - 1) ELSE l

\* The lines of s from character position from on.
RECURSIVE LinesFrom(_, _)
LinesFrom(s, from) ==
    IF from > Len(s) THEN <<>>
    ELSE LET nl == {i \in from..Len(s) : s[i] = "\n"}
         IN  IF nl = {} THEN <<SubSeq(s, from, Len(s))>>
             ELSE <<StripCR(SubSeq(s, from, Min(nl) - 1), TRUE)>> \o LinesFrom(s, Min(nl) + 1)

\* str::lines: split at "\n" (or "\r\n"); a final empty line is dropped.
Lines(s) == LinesFrom(s, 1)

(***************************************************************************)
(* f64 parsing and the conversion (v * 1000.0).round() as i64              *)
(***************************************************************************)
Digits == <<"0", "1", "2", "3", "4", "5", "6", "7", "8", "9">>

IsDigit(c) == \E d \in 1..Len(Digits) : Digits[d] = c

DigitVal(c) == (CHOOSE d \in 1..Len(Digits) : Digits[d] = c) - 1

AllDigits(s) == \A i \in 1..Len(s) : IsDigit(s[i])

RECURSIVE DigitsValue(_, _, _)
DigitsValue(s, i, acc) ==
    IF i > Len(s) THEN acc ELSE DigitsValue(s, i + 1, acc * 10 + DigitVal(s[i]))

RECURSIVE Pow(_, _)
Pow(b, n) == IF n = 0 THEN 1 ELSE b * Pow(b, n - 1)

\* <f64 as FromStr>::from_str on plain decimal text: an optional sign, digits
\* with at most one ".", at least one digit in all.  The empty string, a lone
\* sign or ".", blanks and any other character are errors.  The value is kept
\* exactly, as neg, mant and scale standing for (-1)^neg * mant / 10^scale.
\* (Exponents and the words inf / nan need letters, which no payload of this
\* model holds.)
ParseF64(raw) ==
    LET signed == Len(raw) > 0 /\ raw[1] \in {"+", "-"}
        body   == IF signed THEN Tail(raw) ELSE raw
        dots   == {i \in 1..Len(body) : body[i] = "."}
        ip     == IF dots = {} THEN body ELSE SubSeq(body, 1, Min(dots) - 1)
        fp     == IF dots = {} THEN <<>> ELSE SubSeq(body, Min(dots) + 1, Len(body))
    IN  IF AllDigits(ip) /\ AllDigits(fp) /\ Len(ip) + Len(fp) > 0
        THEN [tag |-> "Ok", neg |-> (signed /\ raw[1] = "-"),
              mant |-> DigitsValue(ip \o fp, 1, 0), scale |-> Len(fp)]
        ELSE [tag |-> "Err"]

(***************************************************************************)
(* IEEE-754 binary64 arithmetic on exact integers.  A natural number too   *)
(* large for the checker's integers is a sequence of base-10000 limbs,     *)
(* least significant first, without leading zero limbs (zero is <<>>).     *)
(***************************************************************************)
LIMB == 10000

F64_MANTISSA_BITS == 53

RECURSIVE BigTrim(_)
BigTrim(a) ==
    IF a # <<>> /\ a[Len(a)] = 0 THEN BigTrim(SubSeq(a, 1, Len(a) - 1)) ELSE a

RECURSIVE BigFromNat(_)
BigFromNat(n) == IF n = 0 THEN <<>> ELSE <<n % LIMB>> \o BigFromNat(n \div LIMB)

RECURSIVE BigToNat(_)
BigToNat(a) == IF a = <<>> THEN 0 ELSE a[1] + LIMB * BigToNat(Tail(a))

\* a * c for a small factor c (c <= 100000).
RECURSIVE BigMulFrom(_, _, _, _)
BigMulFrom(a, i, c, carry) ==
    IF i > Len(a) THEN BigFromNat(carry)
    ELSE LET x == a[i] * c + carry
         IN  <<x % LIMB>> \o BigMulFrom(a, i + 1, c, x \div LIMB)

BigMulSmall(a, c) == BigTrim(BigMulFrom(a, 1, c, 0))

\* Quotient q and remainder r of a by a small divisor c (c <= 100000).
RECURSIVE BigDivFrom(_, _, _, _, _)
BigDivFrom(a, i, c, rem, acc) ==
    IF i = 0 THEN [q |-> BigTrim(acc), r |-> rem]
    ELSE LET x == rem * LIMB + a[i]
         IN  BigDivFrom(a, i - 1, c, x % c, <<x \div c>> \o acc)

BigDivSmall(a, c) == BigDivFrom(a, Len(a), c, 0, <<>>)

\* a < b
RECURSIVE BigLessFrom(_, _, _)
BigLessFrom(a, b, i) ==
    IF i = 0 THEN FALSE
    ELSE IF a[i] # b[i] THEN a[i] < b[i]
    ELSE BigLessFrom(a, b, i - 1)

BigLess(a, b) ==
    IF Len(a) # Len(b) THEN Len(a) < Len(b) ELSE BigLessFrom(a, b, Len(a))

BigIsOdd(a) == a # <<>> /\ a[1] % 2 = 1

BigSucc(a) == BigTrim(BigMulFrom(a, 1, 1, 1))

RECURSIVE BigPow2(_)
BigPow2(n) == IF n <= 12 THEN <<Pow(2, n)>> ELSE BigMulSmall(BigPow2(n - 12), 4096)

\* floor(a / 2^n)
RECURSIVE BigShiftRight(_, _)
BigShiftRight(a, n) ==
    IF n = 0 THEN a
    ELSE IF n >= 10 THEN BigShiftRight(BigDivSmall(a, 1024).q, n - 10)
    ELSE BigDivSmall(a, Pow(2, n)).q

\* Round to nearest, ties to even: the quotient d.q of a division by c with
\* remainder d.r, rounded.
RoundHalfEven(d, c) ==
    IF 2 * d.r > c \/ (2 * d.r = c /\ BigIsOdd(d.q)) THEN BigSucc(d.q) ELSE d.q

\* The least k with n * 2^k >= t, and n * 2^k (n > 0); twelve doublings are
\* taken at once while that still stays below t.
RECURSIVE ScaleUp(_, _, _)
ScaleUp(n, t, k) ==
    IF ~BigLess(n, t) THEN [n |-> n, k |-> k]
    ELSE IF BigLess(BigMulSmall(n, 2048), t) THEN ScaleUp(BigMulSmall(n, 4096), t, k + 12)
    ELSE ScaleUp(BigMulSmall(n, 2), t, k + 1)

\* The f64 nearest to mant / 10^scale (0 < mant < 2^31, scale <= 5), as
\* m * 2^(-k) with m an integer of 53 bits: what from_str returns.
NearestF64(mant, scale) ==
    LET den == Pow(10, scale)
        up  == ScaleUp(BigFromNat(mant),
                       BigMulSmall(BigPow2(F64_MANTISSA_BITS - 1), den), 0)
    IN  [m |-> RoundHalfEven(BigDivSmall(up.n, den), den), k |-> up.k]

\* The least t with n / 2^t < 2^53.
RECURSIVE ShiftFor(_, _)
ShiftFor(n, t) ==
    IF BigLess(BigShiftRight(n, t), BigPow2(F64_MANTISSA_BITS)) THEN t ELSE ShiftFor(n, t + 1)

\* x * 1000.0 in f64: the exact product, rounded to 53 bits.
F64TimesThousand(x) ==
    LET p == BigMulSmall(x.m, 1000)
        t == ShiftFor(p, 0)
        c == Pow(2, t)
    IN  [m |-> RoundHalfEven(BigDivSmall(p, c), c), k |-> x.k - t]

\* f64::round of x = m * 2^(-k) >= 0 with k >= 1: half away from zero, which
\* is floor((floor(2 * x) + 1) / 2).
F64Round(x) == (BigToNat(BigShiftRight(x.m, x.k - 1)) + 1) \div 2

\* Mutant: the product is cast without .round(), which truncates.
ToMilliTruncated(v) ==
    LET mag == (v.mant * 1000) \div Pow(10, v.scale)
    IN  IF v.neg THEN 0 - mag ELSE mag

\* (v * 1000.0).round() as i64 for the parsed decimal v: the nearest f64 of the
\* decimal, times 1000.0 in f64, rounded half away from zero.  The sign goes
\* through all three steps unchanged, and -0.0 as i64 is 0.
ToMilli(v) ==
    LET mag == IF v.mant = 0 THEN 0
               ELSE F64Round(F64TimesThousand(NearestF64(v.mant, v.scale)))
    IN  IF v.neg THEN 0 - mag ELSE mag

(***************************************************************************)
(* Log records (tracing's info!, warn!, error!)                            *)
(***************************************************************************)
LogRec(level, msg, arg) == [level |-> level, msg |-> msg, arg |-> arg]

(***************************************************************************)
(* parse (main.rs 135-182)                                                 *)
(***************************************************************************)
\* The closure given to filter_map, for one line: None when the line does not
\* contain the start marker or has no end marker; otherwise the text
\* line[start.len()..end].
ScanLine(line, start, end) ==
    IF ~Contains(line, start) THEN NoneV
    ELSE LET e == Find(line, end)
         IN  IF e = NoneV THEN NoneV ELSE Slice(line, ByteLen(start), e.val)

\* body.lines().filter_map(..).next(): the closure runs on the lines in order
\* and stops at the first line for which it returns Some (or panics).
RECURSIVE ScanFrom(_, _, _, _)
ScanFrom(lines, i, start, end) ==
    IF i > Len(lines) THEN NoneV
    ELSE LET r == ScanLine(lines[i], start, end)
         IN  IF r = NoneV THEN ScanFrom(lines, i + 1, start, end) ELSE r

ScanField(body, start, end) == ScanFrom(Lines(body), 1, start, end)

ScanGenerate(body) == ScanField(body, GENERATE_START_MARKER, GENERATE_END_MARKER)

ScanConsumption(body) == ScanField(body, CONSUMPTION_START_MARKER, CONSUMPTION_END_MARKER)

\* What parse logs when a field is missing (main.rs 163-164).
MissingLog(body) ==
    << LogRec("ERROR", "failed to parse metrics. generate or consumption is missing.", <<>>),
       LogRec("ERROR", "body: {:?}", body) >>

\* Mutant: the generate failure is dropped without a record.
GenerateFloatLogSilent(raw) == <<>>

\* What parse logs when a field is no float (main.rs 169, 177).
GenerateFloatLog(raw) == << LogRec("ERROR", "failed to parse generate as a float: {}", raw) >>

ConsumptionFloatLog(raw) == << LogRec("ERROR", "failed to parse consumption as a float: {}", raw) >>

\* What parse hands back: ret is Some(<<generate, consumption>>), None, or the
\* panic of a range index; log is what it has logged by then; generate and
\* consumption are its two locals of lines 136 and 149 (NotRun when the panic
\* came before the local was bound).
ParseResult(ret, log, generate, consumption) ==
    [ret |-> ret, log |-> log, generate |-> generate, consumption |-> consumption]

parse(body) ==
    LET generate == ScanGenerate(body)
    IN  IF generate = PanicV THEN ParseResult(PanicV, <<>>, NotRun, NotRun)
        ELSE
        LET consumption == ScanConsumption(body)
        IN  IF consumption = PanicV THEN ParseResult(PanicV, <<>>, generate, NotRun)
            ELSE IF generate = NoneV \/ consumption = NoneV
            THEN ParseResult(NoneV, MissingLog(body), generate, consumption)
            ELSE
            LET g == ParseF64(generate.val)
            IN  IF g.tag = "Err"
                THEN ParseResult(NoneV, GenerateFloatLog(generate.val), generate, consumption)
                ELSE
                LET c == ParseF64(consumption.val)
                IN  IF c.tag = "Err"
                    THEN ParseResult(NoneV, ConsumptionFloatLog(consumption.val), generate, consumption)
                    ELSE ParseResult(Some(<<ToMilli(g), ToMilli(c)>>), <<>>, generate, consumption)

(***************************************************************************)
(* The response of metrics on success (main.rs 119-128)                    *)
(***************************************************************************)
RECURSIVE NatToText(_)
NatToText(n) == IF n < 10 THEN <<Digits[n + 1]>> ELSE Append(NatToText(n \div 10), Digits[(n % 10) + 1])

\* format!("{}", n) for an i64
IntToText(n) == IF n < 0 THEN <<"-">> \o NatToText(0 - n) ELSE NatToText(n)

RECURSIVE Join(_, _)
Join(ls, sep) ==
    IF Len(ls) = 0 THEN <<>>
    ELSE IF Len(ls) = 1 THEN ls[1]
    ELSE ls[1] \o <<sep>> \o Join(Tail(ls), sep)

\* The six lines, each a sequence of text fragments.
ExpositionLines(generate, consumption) ==
    << <<"# HELP power_solar_generation_watts An amount of solar power generation in watts">>,
       <<"# TYPE power_solar_generation_watts gauge">>,
       <<"power_solar_generation_watts", " ">> \o IntToText(generate),
       <<"# HELP power_consumption_watts An amount of power consumption in watts">>,
       <<"# TYPE power_consumption_watts gauge">>,
       <<"power_consumption_watts", " ">> \o IntToText(consumption) >>

Exposition(generate, consumption) == Join(ExpositionLines(generate, consumption), "\n")

Response(status, text) == [status |-> status, text |-> text]

(***************************************************************************)
(* metrics (main.rs 78-129): one invocation of the handler.  inv is the    *)
(* invocation's state: pc is where the task stands ("start" on entry,      *)
(* "get_body" and "sleep" at its two awaits, "done" once it has returned,  *)
(* "panicked" when parse has panicked and the task is gone without a       *)
(* response); calls, delays and fetched record the transport calls made,   *)
(* the sleeps started (in seconds) and what the transport returned.        *)
(***************************************************************************)
RETRY_LIMIT == 3

STATUS_OK == 200

INTERNAL_SERVER_ERROR == 500

InitInv ==
    [pc |-> "start", retry_count |-> 0, calls |-> 0, delays |-> <<>>, fetched |-> <<>>,
     log |-> <<>>, response |-> NoneV]

\* Mutant: a linear backoff, 2 * retry_count seconds.
BackoffLinear(retry_count) == 2 * retry_count

\* Duration::from_secs(2u64.pow(retry_count))
Backoff(retry_count) == Pow(2, retry_count)

\* Mutant: the counter starts at 1.
StartMetricsFromOne(s) ==
    [s EXCEPT !.pc = "get_body",
              !.retry_count = 1,
              !.calls = s.calls + 1,
              !.log = Append(s.log, LogRec("INFO", "collecting metrics...", <<>>))]

\* Lines 79-84: the entry log, the counter at 0, and the first call.
StartMetrics(s) ==
    [s EXCEPT !.pc = "get_body",
              !.retry_count = 0,
              !.calls = s.calls + 1,
              !.log = Append(s.log, LogRec("INFO", "collecting metrics...", <<>>))]

\* Mutant: the loop gives up one attempt early (retry_count >= 3).
OnParseNoneOffByOne(s) ==
    LET rc == s.retry_count + 1
    IN  IF rc >= RETRY_LIMIT
        THEN [s EXCEPT !.pc = "done",
                       !.retry_count = rc,
                       !.response = Some(Response(INTERNAL_SERVER_ERROR, <<"failed to parse metrics">>))]
        ELSE [s EXCEPT !.pc = "sleep",
                       !.retry_count = rc,
                       !.log = Append(s.log, LogRec("WARN", "retrying to fetch metrics... (retry_count: {})", IntToText(rc))),
                       !.delays = Append(s.delays, Backoff(rc))]

\* Lines 99-109, after parse returned None.
OnParseNone(s) ==
    LET rc == s.retry_count + 1
    IN  IF rc > RETRY_LIMIT
        THEN [s EXCEPT !.pc = "done",
                       !.retry_count = rc,
                       !.response = Some(Response(INTERNAL_SERVER_ERROR, <<"failed to parse metrics">>))]
        ELSE [s EXCEPT !.pc = "sleep",
                       !.retry_count = rc,
                       !.log = Append(s.log, LogRec("WARN", "retrying to fetch metrics... (retry_count: {})", IntToText(rc))),
                       !.delays = Append(s.delays, Backoff(rc))]

\* Mutant: a transport failure is counted and retried like a parse failure.
OnBodyErrRetried(s, e) ==
    OnParseNone([s EXCEPT !.fetched = Append(s.fetched, [tag |-> "Err", cause |-> e]),
                          !.log = Append(s.log, LogRec("ERROR", "failed to fetch metrics: {}", <<e>>))])

\* Mutant: the error response carries the transport error.
OnBodyErrLeaksCause(s, e) ==
    [s EXCEPT !.pc = "done",
              !.fetched = Append(s.fetched, [tag |-> "Err", cause |-> e]),
              !.log = Append(s.log, LogRec("ERROR", "failed to fetch metrics: {}", <<e>>)),
              !.response = Some(Response(INTERNAL_SERVER_ERROR, <<"failed to fetch metrics", ": ", e>>))]

\* Lines 86-92: get_body returned Err(e).
OnBodyErr(s, e) ==
    [s EXCEPT !.pc = "done",
              !.fetched = Append(s.fetched, [tag |-> "Err", cause |-> e]),
              !.log = Append(s.log, LogRec("ERROR", "failed to fetch metrics: {}", <<e>>)),
              !.response = Some(Response(INTERNAL_SERVER_ERROR, <<"failed to fetch metrics">>))]

\* Mutant: the loop does not break on Some(value) and retries all the same.
OnBodyOkNoBreak(s, body) ==
    LET p == parse(body)
        t == [s EXCEPT !.fetched = Append(s.fetched, Some(body)),
                       !.log = s.log \o p.log]
    IN  IF p.ret = PanicV THEN [t EXCEPT !.pc = "panicked"] ELSE OnParseNone(t)

\* Mutant: the payload of the first call is kept and parsed again on a retry.
OnBodyOkCached(s, body) ==
    LET p == parse(IF s.fetched = <<>> THEN body ELSE s.fetched[1].val)
        t == [s EXCEPT !.fetched = Append(s.fetched, Some(body)),
                       !.log = s.log \o p.log]
    IN  IF p.ret = PanicV THEN [t EXCEPT !.pc = "panicked"]
        ELSE IF p.ret = NoneV THEN OnParseNone(t)
        ELSE [t EXCEPT !.pc = "done",
                       !.response = Some(Response(STATUS_OK, Exposition(p.ret.val[1], p.ret.val[2])))]

\* Lines 85, 95-128: get_body returned Ok(body); the task runs on to its next
\* await, to its return, or to the panic of parse.
OnBodyOk(s, body) ==
    LET p == parse(body)
        t == [s EXCEPT !.fetched = Append(s.fetched, Some(body)),
                       !.log = s.log \o p.log]
    IN  IF p.ret = PanicV THEN [t EXCEPT !.pc = "panicked"]
        ELSE IF p.ret = NoneV THEN OnParseNone(t)
        ELSE [t EXCEPT !.pc = "done",
                       !.response = Some(Response(STATUS_OK, Exposition(p.ret.val[1], p.ret.val[2])))]

\* Line 109 done: the sleep has elapsed and the loop calls get_body again.
OnWake(s) == [s EXCEPT !.pc = "get_body", !.calls = s.calls + 1]

(***************************************************************************)
(* Payloads: texts put together from pieces                                *)
(***************************************************************************)
Chars(str) ==
    CASE str = "1.500" -> <<"1", ".", "5", "0", "0">>
      [] str = "0.800" -> <<"0", ".", "8", "0", "0">>
      [] str = "2.5"   -> <<"2", ".", "5">>

\* "G" and "C" are a whole field as the page prints it, "N" a bare numeral.
PieceText(p) ==
    CASE p = "G"  -> GENERATE_START_MARKER \o Chars("1.500") \o GENERATE_END_MARKER
      [] p = "C"  -> CONSUMPTION_START_MARKER \o Chars("0.800") \o CONSUMPTION_END_MARKER
      [] p = "GS" -> GENERATE_START_MARKER
      [] p = "GE" -> GENERATE_END_MARKER
      [] p = "CS" -> CONSUMPTION_START_MARKER
      [] p = "CE" -> CONSUMPTION_END_MARKER
      [] p = "N"  -> Chars("2.5")
      [] p = "NL" -> <<"\n">>

Pieces == {"G", "C", "GS", "GE", "CS", "CE", "N", "NL"}

RECURSIVE Text(_)
Text(ps) == IF ps = <<>> THEN <<>> ELSE PieceText(Head(ps)) \o Text(Tail(ps))

MaxPieces == 5

\* The payloads of at most n pieces.
PayloadsUpTo(n) == {Text(ps) : ps \in UNION {[1..k -> Pieces] : k \in 0..n}}

\* What the transport returns in the runs of metrics: two good pages, a page
\* without the generation field, one without the consumption field, one with
\* each field not a number, and one on which parse panics.
TransportPayloads ==
    { Text(<<"G", "NL", "C">>),
      Text(<<"C", "NL", "GS", "N", "GE">>),
      Text(<<"C">>),
      Text(<<"G">>),
      Text(<<"GS", "GE", "NL", "C">>),
      Text(<<"G", "NL", "CS", "CE">>),
      Text(<<"GE", "GS", "NL", "C">>) }

TransportErrors == {"connect", "timeout"}

(***************************************************************************)
(* Spec: one invocation of metrics against an arbitrary transport          *)
(***************************************************************************)
Init == inv = InitInv /\ input = <<>> /\ output = NotRun /\ invs = <<>>

Start ==
    /\ inv.pc = "start"
    /\ inv' = StartMetrics(inv)
    /\ UNCHANGED <<input, output, invs>>

GetBodyOk ==
    /\ inv.pc = "get_body"
    /\ \E body \in TransportPayloads : inv' = OnBodyOk(inv, body)
    /\ UNCHANGED <<input, output, invs>>

GetBodyErr ==
    /\ inv.pc = "get_body"
    /\ \E e \in TransportErrors : inv' = OnBodyErr(inv, e)
    /\ UNCHANGED <<input, output, invs>>

SleepElapsed ==
    /\ inv.pc = "sleep"
    /\ inv' = OnWake(inv)
    /\ UNCHANGED <<input, output, invs>>

Next == Start \/ GetBodyOk \/ GetBodyErr \/ SleepElapsed

Spec == Init /\ [][Next]_vars

(***************************************************************************)
(* SpecParse: parse applied to every payload                               *)
(***************************************************************************)
InitParse ==
    inv = InitInv /\ input \in PayloadsUpTo(MaxPieces) /\ output = NotRun /\ invs = <<>>

RunParse ==
    /\ output = NotRun
    /\ output' = parse(input)
    /\ UNCHANGED <<inv, input, invs>>

NextParse == RunParse

SpecParse == InitParse /\ [][NextParse]_vars

(***************************************************************************)
(* SpecConc: several requests served at once, each a task of its own       *)
(***************************************************************************)
NumReqs == 2

Reqs == 1..NumReqs

\* What the transport returns to the concurrent requests: a good page, a
\* page without the generation field, and one on which parse panics.
ConcPayloads ==
    { Text(<<"G", "NL", "C">>), Text(<<"C">>), Text(<<"GE", "GS", "NL", "C">>) }

ConcErrors == {"connect"}

\* Mutant: retry_count is one counter shared by all the requests.
PutSharedCounter(all, r, new) ==
    [q \in DOMAIN all |->
        IF q = r THEN new ELSE [all[q] EXCEPT !.retry_count = new.retry_count]]

\* The locals of metrics (retry_count, body, value) belong to the call: a
\* step of request r writes the state of r and nothing else.  AppState holds
\* the endpoint only.
Put(all, r, new) == [all EXCEPT ![r] = new]

\* Mutant: the sleep holds the thread (std::thread::sleep on a runtime of
\* one worker), so no other task runs while a task is asleep.
CanRunBlockingSleep(all, r) ==
    /\ all[r].pc \notin {"done", "panicked"}
    /\ \A q \in DOMAIN all : q # r => all[q].pc # "sleep"

\* tokio::time::sleep(..).await and get_body(..).await hand the worker
\* back to the runtime: a task can run whenever it has not itself ended,
\* whatever the other tasks are waiting for.
CanRun(all, r) == all[r].pc \notin {"done", "panicked"}

InitConc ==
    /\ inv = InitInv
    /\ input = <<>>
    /\ output = NotRun
    /\ invs = [r \in Reqs |-> InitInv]

StartReq(r) ==
    /\ invs[r].pc = "start"
    /\ CanRun(invs, r)
    /\ invs' = Put(invs, r, StartMetrics(invs[r]))
    /\ UNCHANGED <<inv, input, output>>

GetBodyOkReq(r) ==
    /\ invs[r].pc = "get_body"
    /\ CanRun(invs, r)
    /\ \E body \in ConcPayloads : invs' = Put(invs, r, OnBodyOk(invs[r], body))
    /\ UNCHANGED <<inv, input, output>>

GetBodyErrReq(r) ==
    /\ invs[r].pc = "get_body"
    /\ CanRun(invs, r)
    /\ \E e \in ConcErrors : invs' = Put(invs, r, OnBodyErr(invs[r], e))
    /\ UNCHANGED <<inv, input, output>>

SleepElapsedReq(r) ==
    /\ invs[r].pc = "sleep"
    /\ CanRun(invs, r)
    /\ invs' = Put(invs, r, OnWake(invs[r]))
    /\ UNCHANGED <<inv, input, output>>

NextConc ==
    \E r \in Reqs : StartReq(r) \/ GetBodyOkReq(r) \/ GetBodyErrReq(r) \/ SleepElapsedReq(r)

SpecConc == InitConc /\ [][NextConc]_vars

(***************************************************************************)
(* SpecLines: parse applied to pages put together from whole lines         *)
(***************************************************************************)
\* The lines: empty, a token alone, a field with either numeral, the end token
\* before the start token, text before a field, and both fields on one line.
LineKinds ==
    { <<>>, <<"GS">>, <<"GE">>, <<"G">>, <<"GS", "N", "GE">>, <<"GE", "GS">>, <<"N", "G">>,
      <<"CS">>, <<"C">>, <<"CS", "N", "CE">>, <<"CE", "CS">>, <<"G", "C">> }

MaxLines == 3

\* The text of the lines, "\n" between them.
RECURSIVE JoinLines(_)
JoinLines(ls) ==
    IF ls = <<>> THEN <<>>
    ELSE IF Len(ls) = 1 THEN Text(ls[1])
    ELSE Text(ls[1]) \o <<"\n">> \o JoinLines(Tail(ls))

InitLines ==
    /\ inv = InitInv
    /\ output = NotRun
    /\ invs = <<>>
    /\ \E n \in 1..MaxLines : \E ls \in [1..n -> LineKinds] : input = JoinLines(ls)

SpecLines == InitLines /\ [][NextParse]_vars

(***************************************************************************)
(* SpecConv: parse applied to pages whose two fields hold decimal texts    *)
(***************************************************************************)
FracDigits == {"0", "2", "3", "4", "5"}

IntParts == {<<>>, <<"0">>, <<"1">>}

MaxFrac == 4

\* Field texts: an integer part alone, or an integer part, "." and at most n
\* fractional digits; either part may be empty.
Raws(n) ==
    IntParts \cup
    {ip \o <<".">> \o fp : ip \in IntParts, fp \in UNION {[1..k -> FracDigits] : k \in 0..n}}

\* The page with the two field texts, one field per line.
Page(g, c) ==
    GENERATE_START_MARKER \o g \o GENERATE_END_MARKER \o <<"\n">> \o
    CONSUMPTION_START_MARKER \o c \o CONSUMPTION_END_MARKER

\* The consumption field holds the negative of the generation text, a fixed
\* numeral, or nothing.
InitConv ==
    /\ inv = InitInv
    /\ output = NotRun
    /\ invs = <<>>
    /\ \E g \in Raws(MaxFrac) :
          \E c \in {<<"-">> \o g, Chars("0.800"), <<>>} : input = Page(g, c)

SpecConv == InitConv /\ [][NextParse]_vars

(***************************************************************************)
(* Vocabulary of the properties                                            *)
(***************************************************************************)
\* The i-th transport call returned a payload and parse returned None on it.
ParseFailedAt(i) ==
    inv.fetched[i].tag = "Some" /\ parse(inv.fetched[i].val).ret = NoneV

\* The i-th transport call returned a payload and parse returned a Reading.
ParsedAt(i) ==
    inv.fetched[i].tag = "Some" /\ parse(inv.fetched[i].val).ret.tag = "Some"

\* The i-th transport call failed.
TransportFailedAt(i) == inv.fetched[i].tag = "Err"

Returned == inv.pc = "done"

ParseExhausted ==
    /\ Returned
    /\ inv.response = Some([status |-> 500, text |-> <<"failed to parse metrics">>])

FetchFailed ==
    /\ Returned
    /\ inv.response = Some([status |-> 500, text |-> <<"failed to fetch metrics">>])

Success == Returned /\ inv.response.tag = "Some" /\ inv.response.val.status = 200

RECURSIVE SumSeq(_)
SumSeq(q) == IF q = <<>> THEN 0 ELSE Head(q) + SumSeq(Tail(q))

Logged(level, msg, arg) ==
    \E k \in 1..Len(inv.log) : inv.log[k] = [level |-> level, msg |-> msg, arg |-> arg]

(***************************************************************************)
(* C1..C4: the retry loop                                                  *)
(***************************************************************************)
\* C1 (retry exhaustion): in every state of an invocation there are at most 4
\* transport calls; an invocation all of whose fetched payloads failed to parse
\* has not returned before the 4th such payload, and has returned ParseExhausted
\* (500, "failed to parse metrics") with exactly 4 calls once there are 4; and
\* ParseExhausted is returned only after exactly 4 failed parses.
C1_RetryExhaustion ==
    LET n == Len(inv.fetched)
        allFailed == \A i \in 1..n : ParseFailedAt(i)
    IN  /\ inv.calls <= 4
        /\ n <= 4
        /\ (allFailed /\ n < 4) => ~Returned
        /\ (allFailed /\ n = 4) => (ParseExhausted /\ inv.calls = 4)
        /\ ParseExhausted => (allFailed /\ n = 4 /\ inv.calls = 4)

\* An invocation that returned ParseExhausted after both kinds of parse failure.
C1_Witness ==
    /\ ParseExhausted
    /\ inv.calls = 4
    /\ Logged("ERROR", "failed to parse metrics. generate or consumption is missing.", <<>>)
    /\ Logged("ERROR", "failed to parse generate as a float: {}", <<>>)

\* C2 (retry then success): a payload that parses is always the last one
\* fetched; if it is the (k+1)-th, the k before it all failed to parse, k <= 3,
\* the invocation has returned 200 with exactly k+1 transport calls and k
\* sleeps, so no call and no sleep follows a successful parse.
C2_RetryThenSuccess ==
    \A i \in 1..Len(inv.fetched) :
        ParsedAt(i) =>
            /\ i = Len(inv.fetched)
            /\ i <= 4
            /\ \A j \in 1..(i - 1) : ParseFailedAt(j)
            /\ Success
            /\ inv.calls = i
            /\ Len(inv.delays) = i - 1

\* Three failed parses, then a payload that parses on the 4th call.
C2_Witness ==
    /\ Len(inv.fetched) = 4
    /\ ParsedAt(4)
    /\ Success
    /\ inv.calls = 4
    /\ inv.delays = <<2, 4, 8>>

\* C3 (transport failures are never retried): a failed transport call is
\* always the last call of its invocation, which has returned FetchFailed
\* (500, "failed to fetch metrics") with no call and no sleep after it: as
\* many calls as results and one sleep before each call but the first.  A
\* failure of the first call leaves the counter at 0 and no sleep at all.
C3_TransportFailureNotRetried ==
    \A i \in 1..Len(inv.fetched) :
        TransportFailedAt(i) =>
            /\ i = Len(inv.fetched)
            /\ FetchFailed
            /\ inv.calls = i
            /\ Len(inv.delays) = i - 1
            /\ inv.retry_count = i - 1
            /\ (i = 1 => (inv.retry_count = 0 /\ SumSeq(inv.delays) = 0))

\* The transport fails on a retry attempt (the third call).
C3_Witness ==
    /\ Len(inv.fetched) = 3
    /\ TransportFailedAt(3)
    /\ FetchFailed

\* C4 (backoff schedule): the sleeps of an invocation are, in order, 2, 4 and
\* 8 seconds, the n-th of them between the n-th and the (n+1)-th transport
\* call; none comes before the first call nor after the 4th failed parse, so
\* the sum is at most 14 seconds, and exactly 14 on ParseExhausted.
C4_BackoffSchedule ==
    LET d == inv.delays
    IN  /\ Len(d) <= 3
        /\ \A n \in 1..Len(d) : d[n] = <<2, 4, 8>>[n]
        /\ inv.pc = "start" => (inv.calls = 0 /\ d = <<>>)
        /\ inv.pc = "sleep" => inv.calls = Len(d)
        /\ inv.pc \in {"get_body", "done", "panicked"} => inv.calls = Len(d) + 1
        /\ SumSeq(d) <= 14
        /\ ParseExhausted => (d = <<2, 4, 8>> /\ SumSeq(d) = 14)

\* The invocation is in its third sleep, of 8 seconds.
C4_Witness == inv.pc = "sleep" /\ inv.delays = <<2, 4, 8>> /\ inv.calls = 3

(***************************************************************************)
(* C9, C10: logging and the response                                       *)
(***************************************************************************)
\* The log holds a record that names field f and no other field.
LoggedFieldOnly(f) ==
    \E k \in 1..Len(inv.log) :
        inv.log[k].msg =
            (IF f = "generate" THEN "failed to parse generate as a float: {}"
                               ELSE "failed to parse consumption as a float: {}")

\* The field (or fields) on which parse failed for this payload.
FailedFields(body) ==
    LET g == ScanGenerate(body)
        c == ScanConsumption(body)
    IN  IF g = NoneV \/ c = NoneV
        THEN (IF g = NoneV THEN {"generate"} ELSE {}) \cup (IF c = NoneV THEN {"consumption"} ELSE {})
        ELSE IF ParseF64(g.val).tag = "Err" THEN {"generate"} ELSE {"consumption"}

\* C9 as claimed: every transport failure is logged with its cause, and every
\* parse failure is logged with a record that tells which field failed and
\* with the raw payload.
C9_AsClaimed ==
    \A i \in 1..Len(inv.fetched) :
        /\ TransportFailedAt(i) =>
               Logged("ERROR", "failed to fetch metrics: {}", <<inv.fetched[i].cause>>)
        /\ ParseFailedAt(i) =>
               /\ Logged("ERROR", "body: {:?}", inv.fetched[i].val)
               /\ \E f \in FailedFields(inv.fetched[i].val) : LoggedFieldOnly(f)

\* C9 as amended: no failure goes without an ERROR record, emitted before the
\* invocation returns or sleeps.  A transport failure is logged with its
\* cause.  A missing field is logged as "generate or consumption is missing",
\* which does not tell which one, together with the raw payload.  A field that
\* is no float is logged by name with the field's raw text, and the payload is
\* not logged.  Exhaustion adds no record: the last record of an invocation
\* that returns ParseExhausted is the one of its 4th parse failure.
C9_FailureLogging ==
    /\ \A i \in 1..Len(inv.fetched) :
        /\ TransportFailedAt(i) =>
               Logged("ERROR", "failed to fetch metrics: {}", <<inv.fetched[i].cause>>)
        /\ ParseFailedAt(i) =>
               LET body == inv.fetched[i].val
                   g == ScanGenerate(body)
                   c == ScanConsumption(body)
               IN  IF g = NoneV \/ c = NoneV
                   THEN /\ Logged("ERROR", "failed to parse metrics. generate or consumption is missing.", <<>>)
                        /\ Logged("ERROR", "body: {:?}", body)
                   ELSE IF ParseF64(g.val).tag = "Err"
                   THEN /\ Logged("ERROR", "failed to parse generate as a float: {}", g.val)
                        /\ ~Logged("ERROR", "body: {:?}", body)
                   ELSE /\ Logged("ERROR", "failed to parse consumption as a float: {}", c.val)
                        /\ ~Logged("ERROR", "body: {:?}", body)
    /\ ParseExhausted =>
           /\ inv.log[Len(inv.log)].level = "ERROR"
           /\ inv.log[Len(inv.log)].msg \in
                  {"body: {:?}", "failed to parse generate as a float: {}",
                   "failed to parse consumption as a float: {}"}

\* A missing field, then a field that is no float, then a transport failure.
C9_Witness ==
    /\ Len(inv.fetched) = 3
    /\ TransportFailedAt(3)
    /\ Returned
    /\ Logged("ERROR", "body: {:?}", inv.fetched[1].val)
    /\ Logged("ERROR", "failed to parse generate as a float: {}", <<>>)

\* The decimal text of the readings the payloads of this model can give.
ReadingText(v) ==
    CASE v = 1500 -> <<"1", "5", "0", "0">>
      [] v = 2500 -> <<"2", "5", "0", "0">>
      [] v = 800  -> <<"8", "0", "0">>

\* C10 (the response): there is a response exactly when the invocation has
\* returned.  Its status is 200 exactly when the last payload fetched parsed,
\* and then its body is the six exposition lines with the two integers of that
\* payload; after a failed transport call it is 500 "failed to fetch metrics",
\* after a 4th failed parse 500 "failed to parse metrics", whatever the cause
\* and the payloads were.
C10_ResponseByOutcome ==
    LET n == Len(inv.fetched)
    IN  /\ Returned <=> inv.response # NoneV
        /\ Returned =>
            /\ n >= 1
            /\ inv.response.val.status = 200 <=> ParsedAt(n)
            /\ ParsedAt(n) =>
                   LET v == parse(inv.fetched[n].val).ret.val
                   IN  inv.response.val.text =
                           << "# HELP power_solar_generation_watts An amount of solar power generation in watts", "\n",
                              "# TYPE power_solar_generation_watts gauge", "\n",
                              "power_solar_generation_watts", " " >> \o ReadingText(v[1]) \o
                           << "\n",
                              "# HELP power_consumption_watts An amount of power consumption in watts", "\n",
                              "# TYPE power_consumption_watts gauge", "\n",
                              "power_consumption_watts", " " >> \o ReadingText(v[2])
            /\ TransportFailedAt(n) =>
                   inv.response = Some([status |-> 500, text |-> <<"failed to fetch metrics">>])
            /\ ParseFailedAt(n) =>
                   inv.response = Some([status |-> 500, text |-> <<"failed to parse metrics">>])

\* A 200 response after one failed parse, with the readings 2500 and 800.
C10_Witness ==
    /\ Success
    /\ Len(inv.fetched) = 2
    /\ parse(inv.fetched[2].val).ret = Some(<<2500, 800>>)

(***************************************************************************)
(* C5..C8: parse on every payload                                          *)
(***************************************************************************)
\* parse has run on input.
Ran == output # NotRun

\* Neither token of the pair occurs anywhere in the payload.
PairMissing(start, end) == ~Contains(input, start) /\ ~Contains(input, end)

Numerals == {"1.500", "0.800", "2.5"}

\* round(value * 1000) of the numerals.
Milli(num) ==
    CASE num = "1.500" -> 1500
      [] num = "0.800" -> 800
      [] num = "2.5"   -> 2500

\* Some line holds the start token, then the numeral, then the end token.
FieldOnSomeLine(start, end, num) ==
    \E k \in 1..Len(Lines(input)) : Contains(Lines(input)[k], start \o Chars(num) \o end)

\* C5 as claimed: on a payload that lacks either marker pair entirely, parse
\* returns None, having logged the missing field; it does not panic.
C5_AsClaimed ==
    (Ran /\ (\/ PairMissing(GENERATE_START_MARKER, GENERATE_END_MARKER)
             \/ PairMissing(CONSUMPTION_START_MARKER, CONSUMPTION_END_MARKER)))
    => (output.ret = NoneV /\ Len(output.log) = 2)

\* C6 as claimed: on a payload in which each pair occurs on some line as start
\* token, numeral, end token, parse returns the readings round(value * 1000)
\* of such numerals.
C6_AsClaimed ==
    (Ran /\ (\E ng \in Numerals : FieldOnSomeLine(GENERATE_START_MARKER, GENERATE_END_MARKER, ng))
         /\ (\E nc \in Numerals : FieldOnSomeLine(CONSUMPTION_START_MARKER, CONSUMPTION_END_MARKER, nc)))
    => /\ output.ret.tag = "Some"
       /\ \E ng \in Numerals, nc \in Numerals :
            /\ FieldOnSomeLine(GENERATE_START_MARKER, GENERATE_END_MARKER, ng)
            /\ FieldOnSomeLine(CONSUMPTION_START_MARKER, CONSUMPTION_END_MARKER, nc)
            /\ output.ret.val = <<Milli(ng), Milli(nc)>>

\* C7 as claimed: the two well-formed pairs on one line (in either order), or
\* the consumption pair on the line before the generation pair, give the same
\* two raw values as the generation pair and the consumption pair on two lines
\* in that order, namely the two numerals.
C7_AsClaimed ==
    Ran =>
        \A ng \in Numerals, nc \in Numerals :
            LET gf == GENERATE_START_MARKER \o Chars(ng) \o GENERATE_END_MARKER
                cf == CONSUMPTION_START_MARKER \o Chars(nc) \o CONSUMPTION_END_MARKER
                apart == parse(gf \o <<"\n">> \o cf)
            IN  input \in {gf \o cf, cf \o gf, cf \o <<"\n">> \o gf} =>
                    /\ apart.generate = Some(Chars(ng))
                    /\ apart.consumption = Some(Chars(nc))
                    /\ output.generate = apart.generate
                    /\ output.consumption = apart.consumption

\* The pair's start token is on some line, its end token on later lines only,
\* and no line holds both.
SplitOverLines(start, end) ==
    LET ls == Lines(input)
        S  == {k \in 1..Len(ls) : Contains(ls[k], start)}
        E  == {k \in 1..Len(ls) : Contains(ls[k], end)}
    IN  S # {} /\ E # {} /\ S \cap E = {} /\ \A e \in E : e > Min(S)

\* C8 as claimed: when a field's start token is on one line and its end token
\* only on a later line, the field is absent and parse reports the failure
\* (returns None).
C8_AsClaimed ==
    /\ (Ran /\ SplitOverLines(GENERATE_START_MARKER, GENERATE_END_MARKER))
           => (output.generate = NoneV /\ output.ret = NoneV)
    /\ (Ran /\ SplitOverLines(CONSUMPTION_START_MARKER, CONSUMPTION_END_MARKER))
           => (output.consumption = NoneV /\ output.ret = NoneV)

(***************************************************************************)
(* C13: the numeric conversion                                             *)
(***************************************************************************)
\* The text is a decimal numeral: an optional sign, then digits with at most
\* one ".", at least one digit in all.
IsDecimalText(raw) ==
    LET u == IF raw # <<>> /\ raw[1] \in {"+", "-"} THEN Tail(raw) ELSE raw
    IN  /\ \E i \in 1..Len(u) : u[i] # "."
        /\ Cardinality({i \in 1..Len(u) : u[i] = "."}) <= 1
        /\ \A i \in 1..Len(u) : u[i] \in {".", "0", "1", "2", "3", "4", "5", "6", "7", "8", "9"}

\* The reading r is the decimal of raw times 1000, rounded to an integer
\* nearest to it; with ties set, a value halfway between two integers must be
\* rounded away from zero, otherwise either neighbour will do.
RoundedMilli(raw, r, ties) ==
    LET v   == ParseF64(raw)
        den == Pow(10, v.scale)
        q   == (v.mant * 1000) \div den
        rem == (v.mant * 1000) % den
        mag == IF v.neg THEN 0 - r ELSE r
    IN  /\ 2 * rem < den => mag = q
        /\ 2 * rem > den => mag = q + 1
        /\ 2 * rem = den => (IF ties THEN mag = q + 1 ELSE mag \in {q, q + 1})

\* parse has run on a page of two field texts, and read them as written.
Converted ==
    /\ Ran
    /\ output.generate.tag = "Some"
    /\ output.consumption.tag = "Some"

FailedParses == {i \in 1..Len(inv.fetched) : ParseFailedAt(i)}

\* C18 (counter invariant): in every state the attempt counter is in 0..4 and
\* is the number of parses that returned None so far; the transport calls are
\* at most counter + 1 and at most 4; the sleeps started are as many as the
\* failed parses among the first three attempts; and a sleep is only started
\* with the counter in 1..3, for 2^counter seconds.
C18_CounterInvariant ==
    /\ inv.retry_count \in 0..4
    /\ inv.retry_count = Cardinality(FailedParses)
    /\ inv.calls <= inv.retry_count + 1
    /\ inv.calls <= 4
    /\ Len(inv.delays) = Cardinality(FailedParses \cap 1..3)
    /\ \A k \in 1..Len(inv.delays) : k \in 1..3 /\ inv.delays[k] = Pow(2, k)
    /\ inv.pc = "sleep" =>
          /\ inv.retry_count \in 1..3
          /\ inv.delays[Len(inv.delays)] = Pow(2, inv.retry_count)

\* The third sleep has started, with the counter at 3, and the fourth parse
\* has failed with no sleep after it.
C18_Witness ==
    /\ inv.retry_count = 4
    /\ Cardinality(FailedParses) = 4
    /\ Len(inv.delays) = 3
    /\ inv.delays[3] = 8

\* C17 (no state reused between attempts): every attempt makes a transport
\* call of its own and parses the payload of that call: the payloads before
\* the last one all failed to parse, and what the invocation does next is
\* decided by the last one alone; the Reading of a Success is parse of the last
\* payload, whatever the earlier ones were; and there is no response without a
\* transport call.
C17_NoStateReused ==
    LET n == Len(inv.fetched)
    IN  /\ inv.calls \in {n, n + 1}
        /\ inv.pc \in {"sleep", "done", "panicked"} => inv.calls = n
        /\ inv.pc = "get_body" => inv.calls = n + 1
        /\ \A i \in 1..(n - 1) : ParseFailedAt(i)
        /\ n >= 1 /\ ParsedAt(n) =>
              /\ Success
              /\ LET r == parse(inv.fetched[n].val).ret.val
                 IN  inv.response = Some(Response(STATUS_OK, Exposition(r[1], r[2])))
        /\ Success => n >= 1 /\ ParsedAt(n)
        /\ n >= 1 /\ ParseFailedAt(n) => ~Success /\ inv.pc \in {"sleep", "get_body", "done"}
        /\ inv.response # NoneV => inv.calls >= 1 /\ n >= 1

\* A second attempt succeeded on its own payload after a first payload that
\* held a different, unusable generation field.
C17_Witness ==
    /\ Success
    /\ Len(inv.fetched) = 2
    /\ Contains(inv.fetched[1].val, GENERATE_START_MARKER)
    /\ ParseFailedAt(1)
    /\ inv.fetched[2].val # inv.fetched[1].val

\* C12 as claimed (the terminal states): an invocation that is neither about
\* to start, nor waiting for the transport, nor asleep, has ended in exactly
\* one of Success, FetchFailed and ParseExhausted.
C12_AsClaimed ==
    inv.pc \notin {"start", "get_body", "sleep"} =>
        /\ Success \/ FetchFailed \/ ParseExhausted
        /\ ~(Success /\ FetchFailed)
        /\ ~(Success /\ ParseExhausted)
        /\ ~(FetchFailed /\ ParseExhausted)

(***************************************************************************)
(* C14, C19: the text between the tokens, and totality of parse            *)
(***************************************************************************)
\* The lines of the payload that hold the start token.
LinesWith(start) == {k \in 1..Len(Lines(input)) : Contains(Lines(input)[k], start)}

\* One line only holds the start token, and on it the first end token comes
\* after the first start token.
StartThenEnd(start, end) ==
    /\ Cardinality(LinesWith(start)) = 1
    /\ LET line == Lines(input)[Min(LinesWith(start))]
       IN  /\ Contains(line, end)
           /\ Min(Matches(line, end)) >= Min(Matches(line, start)) + Len(start)

\* The characters of that line strictly between the two tokens.
Between(start, end) ==
    LET line == Lines(input)[Min(LinesWith(start))]
    IN  SubSeq(line, Min(Matches(line, start)) + Len(start), Min(Matches(line, end)) - 1)

\* C14 as claimed: on a line with the start token and, later on it, the end
\* token, the raw text of the field is what stands strictly between the two
\* tokens, wherever on the line the start token is.
C14_AsClaimed ==
    /\ (Ran /\ StartThenEnd(GENERATE_START_MARKER, GENERATE_END_MARKER))
           => output.generate = Some(Between(GENERATE_START_MARKER, GENERATE_END_MARKER))
    /\ (Ran /\ StartThenEnd(CONSUMPTION_START_MARKER, CONSUMPTION_END_MARKER))
           => output.consumption = Some(Between(CONSUMPTION_START_MARKER, CONSUMPTION_END_MARKER))

\* C19 as claimed: parse is total; on every payload it returns None or a pair
\* of integers, and never aborts.
C19_AsClaimed ==
    Ran => \/ output.ret = NoneV
           \/ /\ output.ret.tag = "Some"
              /\ output.ret.val[1] \in Int
              /\ output.ret.val[2] \in Int

(***************************************************************************)
(* C15: line selection                                                     *)
(***************************************************************************)
\* The lines of the payload that hold both tokens of the pair.
Qualifying(start, end) ==
    {k \in 1..Len(Lines(input)) :
        Contains(Lines(input)[k], start) /\ Contains(Lines(input)[k], end)}

\* The field is a text, the one the extraction gives on the first qualifying
\* line; it is absent exactly when no line qualifies.
TakenFromFirst(field, start, end) ==
    LET Q == Qualifying(start, end)
    IN  IF Q = {} THEN field = NoneV
        ELSE field.tag = "Some" /\ field = ScanLine(Lines(input)[Min(Q)], start, end)

\* C15 as claimed (line selection): for each pair, the raw text of the field
\* is taken from the first line that holds the start token and the end token;
\* lines before it that hold the start token alone do not end the scan,
\* qualifying lines after it are ignored, and the field is absent only if no
\* line qualifies.
C15_AsClaimed ==
    Ran =>
        /\ TakenFromFirst(output.generate, GENERATE_START_MARKER, GENERATE_END_MARKER)
        /\ TakenFromFirst(output.consumption, CONSUMPTION_START_MARKER, CONSUMPTION_END_MARKER)

(***************************************************************************)
(* C11, C16: concurrent requests                                           *)
(***************************************************************************)
\* The state of an invocation that runs alone and has been handed the
\* transport results rs[i..], in order, from state s on.
RECURSIVE Replay(_, _, _)
Replay(s, rs, i) ==
    IF i > Len(rs) THEN s
    ELSE LET t == IF s.pc = "sleep" THEN OnWake(s) ELSE s
         IN  Replay(IF rs[i].tag = "Some" THEN OnBodyOk(t, rs[i].val)
                                          ELSE OnBodyErr(t, rs[i].cause),
                    rs, i + 1)

\* The invocation alone, after the transport results rs.
Alone(rs) == Replay(StartMetrics(InitInv), rs, 1)

\* C11 (independent invocations): under every interleaving, each invocation
\* starts its counter at 0, and its counter, transport calls, backoff delays,
\* log and outcome are those of an invocation that runs alone and is handed
\* the same transport results; nothing of another invocation enters.
C11_Independent ==
    \A r \in DOMAIN invs :
        LET s == invs[r]
            a == Alone(s.fetched)
        IN  /\ s.pc = "start" => s = InitInv
            /\ s.pc # "start" /\ s.fetched = <<>> => s.retry_count = 0 /\ s.calls = 1
            /\ s.pc # "start" => s = a \/ (a.pc = "sleep" /\ s = OnWake(a))

\* One invocation has returned ParseExhausted after four calls while the
\* other, started and handed a good page on its first call, has returned
\* Success with its counter at 0.
C11_Witness ==
    /\ DOMAIN invs # {}
    /\ invs[1].pc = "done" /\ invs[1].retry_count = 4 /\ invs[1].calls = 4
    /\ invs[2].pc = "done" /\ invs[2].retry_count = 0 /\ invs[2].calls = 1
    /\ invs[2].response.val.status = 200

\* C16 (the sleep blocks its own invocation only): while an invocation is in
\* a backoff sleep, every other invocation that has not ended can take its
\* next step: start, get the result of its transport call (and with it parse
\* and return), or wake from its own sleep.
C16_SleepBlocksOnlyItself ==
    \A r \in DOMAIN invs : \A q \in DOMAIN invs :
        (q # r /\ invs[r].pc = "sleep") =>
            /\ invs[q].pc = "start" => ENABLED StartReq(q)
            /\ invs[q].pc = "get_body" => ENABLED (GetBodyErrReq(q) \/ GetBodyOkReq(q))
            /\ invs[q].pc = "sleep" => ENABLED SleepElapsedReq(q)

\* The first invocation is in its third sleep while the second waits for the
\* result of its second transport call.
C16_Witness ==
    /\ DOMAIN invs # {}
    /\ invs[1].pc = "sleep" /\ invs[1].delays = <<2, 4, 8>>
    /\ invs[2].pc = "get_body" /\ invs[2].calls = 2

====
